---- MODULE Spec2Model ----
(***************************************************************************)
(* Model of the Connect-Four move-selection agent (agent_200.c): the board *)
(* state and its operations, the winner check, the evaluator, the          *)
(* alpha-beta search as a machine over the C call stack, the top-level     *)
(* selector and main.                                                      *)
(***************************************************************************)
EXTENDS Integers, Sequences, FiniteSets, TLC

\* ------------------------------------------------------------------------
\* Constants of the program
\* ------------------------------------------------------------------------
COLS == 7
ROWS == 6
MAX_DEPTH == 6
INT_MAX == 2147483647
INT_MIN == -INT_MAX - 1
WIN_SCORE == 100000
EXIT_SUCCESS == 0
EXIT_FAILURE == 1

\* ------------------------------------------------------------------------
\* Bounds of the model
\* ------------------------------------------------------------------------
\* Number of stones played from the empty board in PlaySpec.
MaxStones == 8
\* Number of empty cells of an input board.
MaxFree == 5
\* Depth the harnesses call the search with.
MaxDepth == 4

RowIdx == 0 .. ROWS - 1
ColIdx == 0 .. COLS - 1

\* ------------------------------------------------------------------------
\* State and its functions
\* ------------------------------------------------------------------------
\* typedef struct { int board[ROWS][COLS]; int top[COLS]; int player; } State
MkState(b, t, p) == [board |-> b, top |-> t, player |-> p]

EmptyBoard == [i \in RowIdx |-> [j \in ColIdx |-> 0]]

\* copy_state: every cell, every top and the player are copied to dest.
copy_state(src) ==
    MkState([i \in RowIdx |-> [j \in ColIdx |-> src.board[i][j]]],
            [j \in ColIdx |-> src.top[j]],
            src.player)

\* get_valid_moves: the columns with top < ROWS, in ascending order.
get_valid_moves(s) ==
    SelectSeq([k \in 1 .. COLS |-> k - 1], LAMBDA j : s.top[j] < ROWS)

\* apply_move without the switch of the player to move.
apply_move_KeepPlayer(s, move) ==
    LET row == s.top[move] IN
    MkState([s.board EXCEPT ![row][move] = s.player],
            [s.top EXCEPT ![move] = s.top[move] + 1],
            s.player)

\* apply_move: the stone of s.player goes to board[top[move]][move], top[move]
\* is incremented and the player is switched.
apply_move(s, move) ==
    LET row == s.top[move] IN
    MkState([s.board EXCEPT ![row][move] = s.player],
            [s.top EXCEPT ![move] = s.top[move] + 1],
            3 - s.player)

\* The four tests check_winner makes at cell (i, j), whose stone is player.
Horizontal(s, i, j) ==
    /\ j + 3 < COLS
    /\ s.board[i][j] = s.board[i][j + 1]
    /\ s.board[i][j] = s.board[i][j + 2]
    /\ s.board[i][j] = s.board[i][j + 3]

\* check_winner without its vertical test.
Vertical_Missing(s, i, j) == FALSE

Vertical(s, i, j) ==
    /\ i + 3 < ROWS
    /\ s.board[i][j] = s.board[i + 1][j]
    /\ s.board[i][j] = s.board[i + 2][j]
    /\ s.board[i][j] = s.board[i + 3][j]

RightDiagonal(s, i, j) ==
    /\ i + 3 < ROWS
    /\ j + 3 < COLS
    /\ s.board[i][j] = s.board[i + 1][j + 1]
    /\ s.board[i][j] = s.board[i + 2][j + 2]
    /\ s.board[i][j] = s.board[i + 3][j + 3]

LeftDiagonal(s, i, j) ==
    /\ i + 3 < ROWS
    /\ j - 3 >= 0
    /\ s.board[i][j] = s.board[i + 1][j - 1]
    /\ s.board[i][j] = s.board[i + 2][j - 2]
    /\ s.board[i][j] = s.board[i + 3][j - 3]

\* Cell n of the row-major scan (n = i * COLS + j) starts a four-in-a-row.
CellWins(s, n) ==
    LET i == n \div COLS
        j == n % COLS
    IN  /\ s.board[i][j] # 0
        /\ \/ Horizontal(s, i, j)
           \/ Vertical(s, i, j)
           \/ RightDiagonal(s, i, j)
           \/ LeftDiagonal(s, i, j)

\* check_winner: the stone of the first cell, in row-major order, that starts a
\* four-in-a-row; else -1 when every column is full; else 0.
check_winner(s) ==
    LET hits == {n \in 0 .. ROWS * COLS - 1 : CellWins(s, n)} IN
    IF hits # {}
    THEN LET n == CHOOSE m \in hits : \A k \in hits : m <= k
         IN  s.board[n \div COLS][n % COLS]
    ELSE IF \A j \in ColIdx : ~(s.top[j] < ROWS) THEN -1 ELSE 0

is_terminal(s) == check_winner(s) # 0

\* Number of cells of the board holding value v.
CountCells(s, v) ==
    Cardinality({<<i, j>> \in RowIdx \X ColIdx : s.board[i][j] = v})

\* evaluate_state scoring a decided game like any other state.
evaluate_state_NoWin(s, root_player) ==
    CountCells(s, root_player) - CountCells(s, 3 - root_player)

\* evaluate_state: +-100000 for a win of the root player / the opponent, 0 for
\* a draw, else the root player's stones minus the opponent's.
evaluate_state(s, root_player) ==
    LET winner == check_winner(s) IN
    IF winner = root_player THEN WIN_SCORE
    ELSE IF winner = 3 - root_player THEN -WIN_SCORE
    ELSE IF winner = -1 THEN 0
    ELSE CountCells(s, root_player) - CountCells(s, 3 - root_player)

\* stack_name: 'A' + i, as a character code ('A' is 65).
stack_name(i) == 65 + i

\* ------------------------------------------------------------------------
\* Variables
\* ------------------------------------------------------------------------
VARIABLES
    pc,          \* where main (or the harness that calls the search) stands
    input,       \* standard input: the sequence of whitespace-separated tokens
    unread,      \* the part of standard input scanf has not consumed yet
    this_player, \* main's this_player
    root_state,  \* the State the outermost caller owns (main's root_state)
    stack,       \* the C call stack of alphabeta_search / alphabeta frames
    ret,         \* the value the last finished call returned, with its arguments
    out,         \* what was written to standard output
    exit_status  \* main's exit status, -1 while running

vars == <<pc, input, unread, this_player, root_state, stack, ret, out, exit_status>>

\* ------------------------------------------------------------------------
\* Call stack
\* ------------------------------------------------------------------------
\* A State local that has not been written yet (State child; State root_state;).
NullState == MkState(EmptyBoard, [j \in ColIdx |-> 0], 0)

\* A frame of alphabeta_search or alphabeta: its parameters and locals.  alpha
\* and beta are the (assigned-to) parameters, alpha_in and beta_in the values
\* they were passed with.  The parameter s is a pointer: the frame at position k
\* of the stack points to the child local of frame k - 1, and the frame at
\* position 1 to root_state.
Frame(fn, depth, alpha, beta, maximizing, root_player) ==
    [fn |-> fn, depth |-> depth, alpha |-> alpha, beta |-> beta,
     maximizing |-> maximizing, root_player |-> root_player,
     alpha_in |-> alpha, beta_in |-> beta,
     moves |-> <<>>, i |-> 0, value |-> 0, best_move |-> -1,
     child |-> NullState, pc |-> "entry"]

\* The State that parameter s of the frame at position k points to.
StateOf(rs, stk, k) == IF k = 1 THEN rs ELSE stk[k - 1].child

Top == stack[Len(stack)]
TopState == StateOf(root_state, stack, Len(stack))

\* No call has returned (or the value was consumed).
NoRet ==
    [valid |-> FALSE, value |-> 0, fn |-> "", s |-> NullState, depth |-> 0,
     alpha |-> 0, beta |-> 0, maximizing |-> 0, root_player |-> 0,
     cutoff |-> FALSE]

\* The value v returned by frame f, whose parameter s pointed to state s.
Returned(f, s, v) ==
    [valid |-> TRUE, value |-> v, fn |-> f.fn, s |-> s, depth |-> f.depth,
     alpha |-> f.alpha_in, beta |-> f.beta_in, maximizing |-> f.maximizing,
     root_player |-> f.root_player, cutoff |-> (f.pc = "return")]

Pop(stk) == SubSeq(stk, 1, Len(stk) - 1)

\* The move applied through s, the caller's state, and the result copied.
BuildChild_InPlace(rs, stk, move) ==
    LET k == Len(stk)
        moved == apply_move(StateOf(rs, stk, k), move)
    IN  IF k = 1
        THEN <<moved, [stk EXCEPT ![k].child = copy_state(moved)]>>
        ELSE <<rs, [stk EXCEPT ![k - 1].child = moved,
                               ![k].child = copy_state(moved)]>>

\* State child; copy_state(s, &child); apply_move(&child, move); in the frame on
\* top of the stack: the memory (root_state, stack) afterwards.
BuildChild(rs, stk, move) ==
    LET k == Len(stk)
        child == apply_move(copy_state(StateOf(rs, stk, k)), move)
    IN  <<rs, [stk EXCEPT ![k].child = child]>>

\* ------------------------------------------------------------------------
\* alphabeta
\* ------------------------------------------------------------------------
\* The recursive call made with the caller's own node kind.
ChildKind_Same(maximizing) == maximizing

\* The node kind passed to the recursive call: 0 from a maximizing node, 1 from
\* a minimizing one.
ChildKind(maximizing) == IF maximizing = 1 THEN 0 ELSE 1

\* The break taken on alpha >= value.
Cutoff_OnValue(f) == f.alpha >= f.value

\* if (alpha >= beta) break;
Cutoff(f) == f.alpha >= f.beta

\* The call returns evaluate_state at once: depth 0, a decided game, or no
\* valid move.
ABLeaf ==
    /\ stack # <<>>
    /\ Top.fn = "alphabeta"
    /\ Top.pc = "entry"
    /\ \/ Top.depth = 0
       \/ check_winner(TopState) # 0
       \/ Len(get_valid_moves(TopState)) = 0
    /\ ret' = Returned(Top, TopState, evaluate_state(TopState, Top.root_player))
    /\ stack' = Pop(stack)
    /\ UNCHANGED <<pc, input, unread, this_player, root_state, out, exit_status>>

\* The call has moves to search: value starts at INT_MIN (maximizing) or
\* INT_MAX (minimizing).
ABOpen ==
    /\ stack # <<>>
    /\ Top.fn = "alphabeta"
    /\ Top.pc = "entry"
    /\ ~(Top.depth = 0 \/ check_winner(TopState) # 0)
    /\ Len(get_valid_moves(TopState)) # 0
    /\ stack' = [stack EXCEPT ![Len(stack)] =
                    [@ EXCEPT !.moves = get_valid_moves(TopState),
                              !.value = IF Top.maximizing = 1 THEN INT_MIN
                                        ELSE INT_MAX,
                              !.i = 0,
                              !.pc = "loop"]]
    /\ UNCHANGED <<pc, input, unread, this_player, root_state, ret, out, exit_status>>

\* Loop body up to the recursive call: the child is built and alphabeta is
\* called on it one ply deeper, with the current window and the other node kind.
ABExpand ==
    /\ stack # <<>>
    /\ Top.fn = "alphabeta"
    /\ Top.pc = "loop"
    /\ Top.i < Len(Top.moves)
    /\ LET mem == BuildChild(root_state, stack, Top.moves[Top.i + 1])
           caller == [mem[2][Len(stack)] EXCEPT !.pc = "wait"]
           callee == Frame("alphabeta", Top.depth - 1, Top.alpha, Top.beta,
                           ChildKind(Top.maximizing),
                           Top.root_player)
       IN  /\ root_state' = mem[1]
           /\ stack' = Append([mem[2] EXCEPT ![Len(stack)] = caller], callee)
    /\ UNCHANGED <<pc, input, unread, this_player, ret, out, exit_status>>

\* value overwritten by every score, without the comparison.
ABUpdate_LastScore(f, score) ==
    IF f.maximizing = 1
    THEN [f EXCEPT !.value = score,
                   !.alpha = IF score > f.alpha THEN score ELSE f.alpha]
    ELSE [f EXCEPT !.value = score,
                   !.beta = IF score < f.beta THEN score ELSE f.beta]

\* value, alpha and beta after the child's score (lines 164-169 / 182-187).
ABUpdate(f, score) ==
    IF f.maximizing = 1
    THEN LET value == IF score > f.value THEN score ELSE f.value
             alpha == IF value > f.alpha THEN value ELSE f.alpha
         IN  [f EXCEPT !.value = value, !.alpha = alpha]
    ELSE LET value == IF score < f.value THEN score ELSE f.value
             beta == IF value < f.beta THEN value ELSE f.beta
         IN  [f EXCEPT !.value = value, !.beta = beta]

\* Loop body after the recursive call: the score updates value and the window;
\* alpha >= beta breaks out of the loop, else the loop goes on with i + 1.
ABScore ==
    /\ stack # <<>>
    /\ Top.fn = "alphabeta"
    /\ Top.pc = "wait"
    /\ ret.valid
    /\ LET f == ABUpdate(Top, ret.value) IN
       stack' = [stack EXCEPT ![Len(stack)] =
                    IF Cutoff(f)
                    THEN [f EXCEPT !.pc = "return"]
                    ELSE [f EXCEPT !.i = f.i + 1, !.pc = "loop"]]
    /\ ret' = NoRet
    /\ UNCHANGED <<pc, input, unread, this_player, root_state, out, exit_status>>

\* return value; after the break or after the last move.
ABReturn ==
    /\ stack # <<>>
    /\ Top.fn = "alphabeta"
    /\ \/ Top.pc = "return"
       \/ Top.pc = "loop" /\ Top.i >= Len(Top.moves)
    /\ ret' = Returned(Top, TopState, Top.value)
    /\ stack' = Pop(stack)
    /\ UNCHANGED <<pc, input, unread, this_player, root_state, out, exit_status>>

\* ------------------------------------------------------------------------
\* alphabeta_search
\* ------------------------------------------------------------------------
\* best_move = -1, best_value = INT_MIN, moves = the valid moves of root.
SearchOpen ==
    /\ stack # <<>>
    /\ Top.fn = "alphabeta_search"
    /\ Top.pc = "entry"
    /\ stack' = [stack EXCEPT ![Len(stack)] =
                    [@ EXCEPT !.moves = get_valid_moves(TopState),
                              !.value = INT_MIN,
                              !.best_move = -1,
                              !.i = 0,
                              !.pc = "loop"]]
    /\ UNCHANGED <<pc, input, unread, this_player, root_state, ret, out, exit_status>>

\* The child of root move i is built and searched at depth - 1 with the full
\* window, as a minimizing node.
SearchExpand ==
    /\ stack # <<>>
    /\ Top.fn = "alphabeta_search"
    /\ Top.pc = "loop"
    /\ Top.i < Len(Top.moves)
    /\ LET mem == BuildChild(root_state, stack, Top.moves[Top.i + 1])
           caller == [mem[2][Len(stack)] EXCEPT !.pc = "wait"]
           callee == Frame("alphabeta", Top.depth - 1, INT_MIN, INT_MAX, 0,
                           Top.root_player)
       IN  /\ root_state' = mem[1]
           /\ stack' = Append([mem[2] EXCEPT ![Len(stack)] = caller], callee)
    /\ UNCHANGED <<pc, input, unread, this_player, ret, out, exit_status>>

\* The best move replaced on value >= best_value.
SearchUpdate_LastTie(f, value) ==
    IF value >= f.value
    THEN [f EXCEPT !.value = value, !.best_move = f.moves[f.i + 1]]
    ELSE f

\* best_value and best_move after the value of root move i (lines 210-213).
SearchUpdate(f, value) ==
    IF value > f.value
    THEN [f EXCEPT !.value = value, !.best_move = f.moves[f.i + 1]]
    ELSE f

SearchScore ==
    /\ stack # <<>>
    /\ Top.fn = "alphabeta_search"
    /\ Top.pc = "wait"
    /\ ret.valid
    /\ stack' = [stack EXCEPT ![Len(stack)] =
                    [SearchUpdate(Top, ret.value) EXCEPT !.i = Top.i + 1,
                                                         !.pc = "loop"]]
    /\ ret' = NoRet
    /\ UNCHANGED <<pc, input, unread, this_player, root_state, out, exit_status>>

\* return best_move;
SearchReturn ==
    /\ stack # <<>>
    /\ Top.fn = "alphabeta_search"
    /\ Top.pc = "loop"
    /\ Top.i >= Len(Top.moves)
    /\ ret' = Returned(Top, TopState, Top.best_move)
    /\ stack' = Pop(stack)
    /\ UNCHANGED <<pc, input, unread, this_player, root_state, out, exit_status>>

ABStep == ABLeaf \/ ABOpen \/ ABExpand \/ ABScore \/ ABReturn

SearchStep == SearchOpen \/ SearchExpand \/ SearchScore \/ SearchReturn

\* ------------------------------------------------------------------------
\* Inputs
\* ------------------------------------------------------------------------
\* A full board without any four-in-a-row: rows alternate, in runs of three.
BaseBoard == [i \in RowIdx |-> [j \in ColIdx |-> 1 + ((j \div 3 + i) % 2)]]

\* The cells an input board may have empty: the two top rows of the middle
\* columns.
HoleCols == {2, 3, 4}
HoleCells == {<<i, j>> \in RowIdx \X HoleCols : i >= ROWS - 2}

\* BaseBoard with the cells of H emptied.  A hole below a stone gives a board
\* no play produces, which main accepts all the same.
Blank(H) ==
    [i \in RowIdx |-> [j \in ColIdx |->
        IF <<i, j>> \in H THEN 0 ELSE BaseBoard[i][j]]]

BoardsUpTo(n) == {Blank(H) : H \in {G \in SUBSET HoleCells : Cardinality(G) <= n}}

\* The input boards of Spec.
Boards == BoardsUpTo(MaxFree)

\* top counting the stones of player 1 only.
CountTop_OnlyOne(b) ==
    [j \in ColIdx |-> Cardinality({i \in RowIdx : b[i][j] = 1})]

\* main's root_state.top: the number of non-zero cells of each column.
CountTop(b) ==
    [j \in ColIdx |-> Cardinality({i \in RowIdx : b[i][j] # 0})]

\* A token is a sequence of characters; the digits and their values.
Digits == {"0", "1", "2", "3"}

DigitValue(ch) ==
    CASE ch = "0" -> 0
      [] ch = "1" -> 1
      [] ch = "2" -> 2
      [] ch = "3" -> 3

\* The number of leading digits of a token.
RECURSIVE DigitPrefix(_)
DigitPrefix(tok) ==
    IF tok = <<>> \/ Head(tok) \notin Digits THEN 0
    ELSE 1 + DigitPrefix(Tail(tok))

\* The decimal value of a sequence of digits.
RECURSIVE DecimalValue(_)
DecimalValue(ds) ==
    IF ds = <<>> THEN 0
    ELSE 10 * DecimalValue(SubSeq(ds, 1, Len(ds) - 1)) + DigitValue(ds[Len(ds)])

\* scanf("%d", &v) on the unread input: n is what scanf returns (-1 at the end
\* of input, 0 when the next token does not start with a digit, else 1), val
\* the value stored, rest the input left unread.  The conversion stops at the
\* first character that is no digit, and what follows it in the token stays
\* unread.
scanf_d(stream) ==
    IF stream = <<>>
    THEN [n |-> -1, val |-> 0, rest |-> stream]
    ELSE LET tok == Head(stream)
             k == DigitPrefix(tok)
         IN  IF k = 0
             THEN [n |-> 0, val |-> 0, rest |-> stream]
             ELSE [n |-> 1,
                   val |-> DecimalValue(SubSeq(tok, 1, k)),
                   rest |-> IF k = Len(tok) THEN Tail(stream)
                            ELSE <<SubSeq(tok, k + 1, Len(tok))>>
                                     \o Tail(stream)]

\* The scanf loop over the cells: the values read so far and the input left,
\* until count cells are read or a scanf does not return 1.
RECURSIVE ReadCells(_, _, _)
ReadCells(stream, vals, count) ==
    IF Len(vals) = count
    THEN [ok |-> TRUE, vals |-> vals, rest |-> stream]
    ELSE LET r == scanf_d(stream) IN
         IF r.n # 1
         THEN [ok |-> FALSE, vals |-> vals, rest |-> r.rest]
         ELSE ReadCells(r.rest, Append(vals, r.val), count)

ToToken(v) == <<<<"0">>, <<"1">>, <<"2">>, <<"3">>>>[v + 1]

\* The tokens of a board, row-major, row 0 first.
BoardToks(b) ==
    [n \in 1 .. ROWS * COLS |-> ToToken(b[(n - 1) \div COLS][(n - 1) % COLS])]

WellFormed(p, b) == <<p>> \o BoardToks(b)

\* Where an input is cut short, and where one token is replaced.
Cuts == {0, 1, 2, ROWS * COLS}
Spots == {2, (ROWS * COLS) \div 2, ROWS * COLS + 1}

\* Tokens that are no integer of the input format, or none of its values.
OddTokens == {<<"x">>, <<"3">>, <<"0", "x">>, <<"1", "2">>}

Inputs ==
    {WellFormed(p, b) : p \in {<<"1">>, <<"2">>}, b \in Boards}
    \cup {WellFormed(p, b) :
            p \in OddTokens \cup {<<"0">>, <<"1", "x">>}, b \in BoardsUpTo(1)}
    \cup {SubSeq(WellFormed(p, b), 1, n) :
            p \in {<<"1">>, <<"x">>}, b \in BoardsUpTo(1), n \in Cuts}
    \cup {[WellFormed(p, b) EXCEPT ![q] = tok] :
            p \in {<<"1">>, <<"2">>}, b \in BoardsUpTo(1), q \in Spots,
            tok \in OddTokens}
    \cup {Append(WellFormed(p, b), <<"x">>) :
            p \in {<<"1">>, <<"2">>}, b \in BoardsUpTo(1)}

\* ------------------------------------------------------------------------
\* main
\* ------------------------------------------------------------------------
\* scanf("%d", &this_player) and the check of the player number.
MainReadPlayer ==
    /\ pc = "read_player"
    /\ LET r == scanf_d(unread) IN
       /\ unread' = r.rest
       /\ IF r.n # 1
          THEN /\ exit_status' = EXIT_FAILURE
               /\ pc' = "done"
               /\ UNCHANGED this_player
          ELSE /\ this_player' = r.val
               /\ IF r.val # 1 /\ r.val # 2
                  THEN exit_status' = EXIT_FAILURE /\ pc' = "done"
                  ELSE exit_status' = exit_status /\ pc' = "read_board"
    /\ UNCHANGED <<input, root_state, stack, ret, out>>

\* The ROWS x COLS scanf loop: the first scanf that does not return 1 ends the
\* run with EXIT_FAILURE.
MainReadBoard ==
    /\ pc = "read_board"
    /\ LET r == ReadCells(unread, <<>>, ROWS * COLS) IN
       /\ unread' = r.rest
       /\ IF ~r.ok
          THEN /\ exit_status' = EXIT_FAILURE
               /\ pc' = "done"
               /\ UNCHANGED root_state
          ELSE /\ root_state' =
                    [root_state EXCEPT !.board =
                       [i \in RowIdx |-> [j \in ColIdx |->
                           r.vals[i * COLS + j + 1]]]]
               /\ pc' = "init_top"
               /\ UNCHANGED exit_status
    /\ UNCHANGED <<input, this_player, stack, ret, out>>

\* top[j] = the number of non-zero cells of column j; player = this_player.
MainInitTop ==
    /\ pc = "init_top"
    /\ root_state' = MkState(root_state.board, CountTop(root_state.board),
                             this_player)
    /\ pc' = "call_search"
    /\ UNCHANGED <<input, unread, this_player, stack, ret, out, exit_status>>

\* alphabeta_search(&root_state, MAX_DEPTH, this_player)
MainCallSearch ==
    /\ pc = "call_search"
    /\ stack' = <<Frame("alphabeta_search", MAX_DEPTH, 0, 0, 1, this_player)>>
    /\ pc' = "wait"
    /\ UNCHANGED <<input, unread, this_player, root_state, ret, out, exit_status>>

\* The move printed without the test of best_move < 0.
MainReport_NoCheck ==
    /\ pc = "wait"
    /\ stack = <<>>
    /\ ret.valid
    /\ exit_status' = EXIT_SUCCESS
    /\ out' = Append(out, stack_name(ret.value))
    /\ pc' = "done"
    /\ UNCHANGED <<input, unread, this_player, root_state, stack, ret>>

\* best_move < 0 is a failure; else the column's letter is printed.
MainReport ==
    /\ pc = "wait"
    /\ stack = <<>>
    /\ ret.valid
    /\ IF ret.value < 0
       THEN exit_status' = EXIT_FAILURE /\ out' = out
       ELSE exit_status' = EXIT_SUCCESS
            /\ out' = Append(out, stack_name(ret.value))
    /\ pc' = "done"
    /\ UNCHANGED <<input, unread, this_player, root_state, stack, ret>>

MainStep ==
    MainReadPlayer \/ MainReadBoard \/ MainInitTop \/ MainCallSearch
    \/ MainReport

\* ------------------------------------------------------------------------
\* Spec: a run of the agent on an input
\* ------------------------------------------------------------------------
Init ==
    /\ pc = "read_player"
    /\ input \in Inputs
    /\ unread = input
    /\ this_player = 0
    /\ root_state = NullState
    /\ stack = <<>>
    /\ ret = NoRet
    /\ out = <<>>
    /\ exit_status = -1

Next == MainStep \/ SearchStep \/ ABStep

Spec == Init /\ [][Next]_vars

\* ------------------------------------------------------------------------
\* SearchSpec: alphabeta_search called on a state, at a depth, for a player
\* ------------------------------------------------------------------------
\* The states the harnesses call the search on: a board and a player to move.
HarnessStates(n) ==
    {MkState(b, CountTop(b), p) : b \in BoardsUpTo(n), p \in {1, 2}}

SearchInit ==
    /\ pc = "harness"
    /\ input = <<>>
    /\ unread = <<>>
    /\ this_player = 0
    /\ root_state \in HarnessStates(MaxFree)
    /\ \E d \in 1 .. MaxDepth, rp \in {1, 2} :
         stack = <<Frame("alphabeta_search", d, 0, 0, 1, rp)>>
    /\ ret = NoRet
    /\ out = <<>>
    /\ exit_status = -1

SearchNext == SearchStep \/ ABStep

SearchSpec == SearchInit /\ [][SearchNext]_vars

\* ------------------------------------------------------------------------
\* ABSpec: alphabeta called on a state with a depth, a window, a node kind
\* ------------------------------------------------------------------------
\* The values alpha and beta are drawn from.
Windows == {INT_MIN, -1, 1, INT_MAX}

ABInit ==
    /\ pc = "harness"
    /\ input = <<>>
    /\ unread = <<>>
    /\ this_player = 0
    /\ root_state \in HarnessStates(MaxFree)
    /\ \E d \in 0 .. MaxDepth, a \in Windows, b \in Windows,
          m \in {0, 1}, rp \in {1, 2} :
         /\ a < b
         /\ stack = <<Frame("alphabeta", d, a, b, m, rp)>>
    /\ ret = NoRet
    /\ out = <<>>
    /\ exit_status = -1

ABNext == ABStep

ABSpec == ABInit /\ [][ABNext]_vars

\* ------------------------------------------------------------------------
\* PlaySpec: legal play from the empty board
\* ------------------------------------------------------------------------
Stones(s) == Cardinality({<<i, j>> \in RowIdx \X ColIdx : s.board[i][j] # 0})

PlayInit ==
    /\ pc = "play"
    /\ input = <<>>
    /\ unread = <<>>
    /\ this_player = 0
    /\ root_state = MkState(EmptyBoard, [j \in ColIdx |-> 0], 1)
    /\ stack = <<>>
    /\ ret = NoRet
    /\ out = <<>>
    /\ exit_status = -1

\* One legal move: apply_move for a column of get_valid_moves.
PlayMove ==
    /\ pc = "play"
    /\ Stones(root_state) < MaxStones
    /\ \E k \in 1 .. Len(get_valid_moves(root_state)) :
         root_state' = apply_move(root_state, get_valid_moves(root_state)[k])
    /\ UNCHANGED <<pc, input, unread, this_player, stack, ret, out, exit_status>>

PlayNext == PlayMove

PlaySpec == PlayInit /\ [][PlayNext]_vars

\* ------------------------------------------------------------------------
\* ScenarioSpec: alphabeta_search on the board with bottom row 1 1 1 0 0 0 0
\* ------------------------------------------------------------------------
ScenarioBoard ==
    [i \in RowIdx |-> [j \in ColIdx |-> IF i = 0 /\ j < 3 THEN 1 ELSE 0]]

ScenarioInit ==
    /\ pc = "harness"
    /\ input = <<>>
    /\ unread = <<>>
    /\ this_player = 0
    /\ root_state = MkState(ScenarioBoard, CountTop(ScenarioBoard), 1)
    /\ \E d \in 1 .. MAX_DEPTH :
         stack = <<Frame("alphabeta_search", d, 0, 0, 1, 1)>>
    /\ ret = NoRet
    /\ out = <<>>
    /\ exit_status = -1

ScenarioNext == SearchStep \/ ABStep

ScenarioSpec == ScenarioInit /\ [][ScenarioNext]_vars

\* ------------------------------------------------------------------------
\* Reference definitions of the properties
\* ------------------------------------------------------------------------
MaxOf(S) == CHOOSE x \in S : \A y \in S : y <= x
MinOf(S) == CHOOSE x \in S : \A y \in S : x <= y

LegalColumns(s) == {c \in ColIdx : s.top[c] < ROWS}

\* Plain minimax without pruning, with the program's leaf test and evaluator.
RECURSIVE Minimax(_, _, _, _)
Minimax(s, depth, maximizing, root_player) ==
    IF depth = 0 \/ check_winner(s) # 0 \/ LegalColumns(s) = {}
    THEN evaluate_state(s, root_player)
    ELSE LET vals == {Minimax(apply_move(s, c), depth - 1,
                              IF maximizing = 1 THEN 0 ELSE 1, root_player) :
                        c \in LegalColumns(s)}
         IN  IF maximizing = 1 THEN MaxOf(vals) ELSE MinOf(vals)

\* The four-cell lines of the grid, and the players owning one.
Lines ==
    {<<i, j, di, dj>> \in RowIdx \X ColIdx \X {0, 1} \X {-1, 0, 1} :
        /\ <<di, dj>> \in {<<0, 1>>, <<1, 0>>, <<1, 1>>, <<1, -1>>}
        /\ i + 3 * di \in RowIdx
        /\ j + 3 * dj \in ColIdx}

Owners(s) ==
    {s.board[l[1]][l[2]] :
        l \in {m \in Lines :
                 /\ s.board[m[1]][m[2]] \in {1, 2}
                 /\ \A k \in 1 .. 3 :
                       s.board[m[1] + k * m[3]][m[2] + k * m[4]]
                           = s.board[m[1]][m[2]]}}

\* top[c] is the number of non-empty cells of column c, for every column.
HeightsOK(s) ==
    \A c \in ColIdx : s.top[c] = Cardinality({i \in RowIdx : s.board[i][c] # 0})

\* The states main, the selector and the search have built so far.
BuiltStates ==
    (IF pc \in {"call_search", "wait", "done"} THEN {root_state} ELSE {})
    \cup {stack[k].child : k \in 1 .. Len(stack)}

\* The board tokens of the input are all there and all in {0, 1, 2}.
InputCellsValid ==
    /\ Len(input) >= ROWS * COLS + 1
    /\ \A n \in 2 .. ROWS * COLS + 1 : input[n] \in {<<"0">>, <<"1">>, <<"2">>}

\* The input board has no empty cell below a stone.
InputGravity ==
    \A i \in RowIdx, j \in ColIdx :
        (i > 0 /\ input[i * COLS + j + 2] # <<"0">>)
            => input[(i - 1) * COLS + j + 2] # <<"0">>

\* ------------------------------------------------------------------------
\* Properties
\* ------------------------------------------------------------------------

\* C1: alphabeta called with the full window (INT_MIN, INT_MAX) returns exactly
\* the value of plain minimax on the same state, depth, node kind and root
\* player.
C1_FullWindowIsMinimax ==
    (ret.valid /\ ret.fn = "alphabeta" /\ ret.alpha = INT_MIN
        /\ ret.beta = INT_MAX)
    => ret.value = Minimax(ret.s, ret.depth, ret.maximizing, ret.root_player)

\* A node below a full-window call stops on a cutoff with moves left unsearched.
C1_Witness ==
    /\ Len(stack) >= 2
    /\ stack[1].alpha_in = INT_MIN
    /\ stack[1].beta_in = INT_MAX
    /\ Top.pc = "return"
    /\ Top.i + 1 < Len(Top.moves)

\* C2: on the board with bottom row 1 1 1 0 0 0 0, player 1 to move,
\* check_winner is 0 and alphabeta_search returns column 3 at every depth
\* from 1 to MAX_DEPTH.
C2_ScenarioPicksColumn3 ==
    /\ check_winner(root_state) = 0
    /\ (stack = <<>> /\ ret.valid /\ ret.fn = "alphabeta_search")
          => ret.value = 3

C2_Witness ==
    /\ stack = <<>>
    /\ ret.valid
    /\ ret.fn = "alphabeta_search"
    /\ ret.depth = MAX_DEPTH
    /\ ret.value = 3

\* C3: a legal move in column c fills exactly the empty cell (top[c], c) with
\* the mover's id, raises top[c] by one, leaves every other cell and top alone
\* and switches the player to move.
C3_ApplyMoveEffect ==
    [][\E c \in ColIdx :
          /\ root_state.top[c] < ROWS
          /\ root_state.board[root_state.top[c]][c] = 0
          /\ root_state'.board[root_state.top[c]][c] = root_state.player
          /\ root_state'.top[c] = root_state.top[c] + 1
          /\ \A j \in ColIdx \ {c} : root_state'.top[j] = root_state.top[j]
          /\ \A i \in RowIdx, j \in ColIdx :
                (<<i, j>> # <<root_state.top[c], c>>)
                    => root_state'.board[i][j] = root_state.board[i][j]
          /\ Stones(root_state') = Stones(root_state) + 1
          /\ root_state'.player = 3 - root_state.player
          /\ root_state'.player \in {1, 2}]_vars

\* Moves have been applied, one of them on top of another stone.
C3_Witness ==
    /\ pc = "play"
    /\ Stones(root_state) = 5
    /\ root_state.top[3] = 2
    /\ root_state.top[6] = 1

\* C4 as stated: for every input board with cells in {0, 1, 2}, top[c] is the
\* number of non-empty cells of column c in every state built.
C4_HeightsAnyBoard ==
    InputCellsValid => \A s \in BuiltStates : HeightsOK(s)

\* C4 amended: the same, for the input boards without an empty cell below a
\* stone.
C4_HeightsGravityBoard ==
    (InputCellsValid /\ InputGravity) => \A s \in BuiltStates : HeightsOK(s)

\* The search built a child two plies below the root of such an input.
C4_Witness ==
    /\ InputCellsValid
    /\ InputGravity
    /\ Len(stack) >= 3
    /\ stack[2].child # NullState
    /\ stack[2].child.top # root_state.top

\* The parts of C5: a run ends either with exit status 0 and exactly one character
\* 'A' + c, c a column of the root state with top[c] < ROWS, on standard
\* output, or with a non-zero status and nothing written; it fails exactly
\* when a token is missing or malformed, the player id is not 1 or 2, or the
\* root state has no legal move.
C5_IsInteger(tok) == tok # <<>> /\ \A k \in 1 .. Len(tok) : tok[k] \in Digits

C5_PlayerBad ==
    \/ Len(input) < 1
    \/ ~C5_IsInteger(input[1])
    \/ DecimalValue(input[1]) \notin {1, 2}

C5_BoardBad ==
    \E n \in 2 .. ROWS * COLS + 1 : Len(input) < n \/ ~C5_IsInteger(input[n])

C5_NoLegalMove ==
    \A j \in ColIdx : \A i \in RowIdx :
        DecimalValue(input[i * COLS + j + 2]) # 0

C5_ShouldFail == C5_PlayerBad \/ C5_BoardBad \/ C5_NoLegalMove

\* C5: the two outcomes of a run, and failure exactly on a missing or
\* malformed token, a player id other than 1 and 2, or no legal root move.
C5_Outcome ==
    /\ pc # "done" => (out = <<>> /\ exit_status = -1)
    /\ pc = "done" =>
        /\ \/ /\ exit_status = EXIT_SUCCESS
              /\ Len(out) = 1
              /\ \E c \in ColIdx : out[1] = 65 + c /\ root_state.top[c] < ROWS
           \/ /\ exit_status # EXIT_SUCCESS
              /\ exit_status # -1
              /\ out = <<>>
        /\ (exit_status # EXIT_SUCCESS) <=> C5_ShouldFail

\* What does hold of a run: the same outcomes, with failure exactly when one of
\* the first ROWS * COLS tokens is missing or no integer, the last board token
\* is missing or does not start with a digit, the player id is not 1 or 2, or
\* the root state has no legal move.
C5_ScanFails ==
    \/ Len(input) < ROWS * COLS + 1
    \/ \E n \in 1 .. ROWS * COLS : ~C5_IsInteger(input[n])
    \/ DigitPrefix(input[ROWS * COLS + 1]) = 0

C5_OutcomeOfScanf ==
    /\ pc # "done" => (out = <<>> /\ exit_status = -1)
    /\ pc = "done" =>
        /\ \/ /\ exit_status = EXIT_SUCCESS
              /\ Len(out) = 1
              /\ \E c \in ColIdx : out[1] = 65 + c /\ root_state.top[c] < ROWS
           \/ /\ exit_status # EXIT_SUCCESS
              /\ exit_status # -1
              /\ out = <<>>
        /\ (exit_status # EXIT_SUCCESS)
              <=> \/ C5_ScanFails
                  \/ DecimalValue(input[1]) \notin {1, 2}
                  \/ \A j \in ColIdx : root_state.top[j] = ROWS

\* C6 as stated: in every state reached from the empty board by legal moves
\* (top[c] < ROWS), at most one player owns a four-in-a-row.
C6_OneOwnerAnyLegalPlay ==
    pc = "play" => Cardinality(Owners(root_state)) <= 1

\* C6 amended: a legal move applied to a state in which check_winner is 0
\* gives a state where at most one player owns a four-in-a-row, and
\* check_winner returns that player whatever the scan order.
C6_OneOwnerUndecidedPlay ==
    [][LET owners == Owners(root_state') IN
       (pc = "play" /\ owners # {} /\ check_winner(root_state) = 0)
          => /\ Cardinality(owners) = 1
             /\ owners = {check_winner(root_state')}]_vars

\* A state with a four-in-a-row, reached by play.
C6_Witness ==
    /\ pc = "play"
    /\ Owners(root_state) = {1}
    /\ check_winner(root_state) = 1
    /\ Stones(root_state) = 7

\* C7 as stated: with alpha < beta the returned value is never below alpha and
\* never above beta.
C7_ClippedToWindow ==
    (ret.valid /\ ret.fn = "alphabeta" /\ ret.alpha < ret.beta)
    => (ret.alpha <= ret.value /\ ret.value <= ret.beta)

\* C7 amended: the search is fail-soft.  With alpha < beta and m the minimax
\* value of the node, a returned v <= alpha is an upper bound of m, a returned
\* v >= beta is a lower bound of m, and a v inside the window is m; a node that
\* stops on a cutoff returns its best score, >= beta when maximizing and
\* <= alpha when minimizing.
C7_FailSoft ==
    (ret.valid /\ ret.fn = "alphabeta" /\ ret.alpha < ret.beta)
    => LET m == Minimax(ret.s, ret.depth, ret.maximizing, ret.root_player)
           v == ret.value
       IN  /\ v <= ret.alpha => m <= v
           /\ v >= ret.beta => m >= v
           /\ (ret.alpha < v /\ v < ret.beta) => v = m
           /\ ret.cutoff => IF ret.maximizing = 1 THEN v >= ret.beta
                            ELSE v <= ret.alpha

\* A maximizing node stopped on a cutoff and returned more than beta.
C7_Witness ==
    /\ ret.valid
    /\ ret.fn = "alphabeta"
    /\ ret.alpha < ret.beta
    /\ ret.cutoff
    /\ ret.maximizing = 1
    /\ ret.value > ret.beta

\* The parts of C8: with a legal move at the root, alphabeta_search returns the lowest
\* legal column among those whose child value (depth - 1, minimizing) is the
\* maximum over the legal columns.
C8_ChildValue(s, c, depth, root_player) ==
    Minimax(apply_move(s, c), depth - 1, 0, root_player)

C8_Best(s, depth, root_player) ==
    {c \in LegalColumns(s) :
        \A e \in LegalColumns(s) :
            C8_ChildValue(s, e, depth, root_player)
                <= C8_ChildValue(s, c, depth, root_player)}

\* C8: alphabeta_search returns the first column, in ascending order, whose
\* child value is the greatest.
C8_FirstBestColumn ==
    (ret.valid /\ ret.fn = "alphabeta_search" /\ LegalColumns(ret.s) # {})
    => ret.value = MinOf(C8_Best(ret.s, ret.depth, ret.root_player))

\* The search returned with two columns tied at the maximum, below a column
\* of lower value.
C8_Witness ==
    /\ ret.valid
    /\ ret.fn = "alphabeta_search"
    /\ Cardinality(C8_Best(ret.s, ret.depth, ret.root_player)) >= 2
    /\ \E c \in LegalColumns(ret.s) : c < ret.value

\* C9: no step changes the state a live call was given: root_state and the
\* child of every frame that has a callee stay as they are, and a child is the
\* parent's state with the move applied.
C9_ParentUnchanged ==
    [][/\ \A k \in 1 .. Len(stack) :
            k <= Len(stack')
                => StateOf(root_state', stack', k) = StateOf(root_state, stack, k)
       /\ Len(stack') = Len(stack) + 1 /\ Len(stack) >= 1
            => stack'[Len(stack)].child =
                  apply_move(TopState, Top.moves[Top.i + 1])]_vars

\* A second sibling is being searched two plies below the root.
C9_Witness ==
    /\ Len(stack) >= 3
    /\ stack[2].i >= 1
    /\ stack[2].pc = "wait"
    /\ stack[1].i >= 1

\* C10: in every alphabeta call of a run of main the node is maximizing exactly
\* when the state's player to move is root_player, and minimizing exactly when
\* it is 3 - root_player.
C10_KindMatchesMover ==
    \A k \in 1 .. Len(stack) :
        stack[k].fn = "alphabeta"
            => LET s == StateOf(root_state, stack, k) IN
               /\ stack[k].maximizing \in {0, 1}
               /\ stack[k].root_player = this_player
               /\ stack[k].maximizing = 1 <=> s.player = stack[k].root_player
               /\ stack[k].maximizing = 0
                     <=> s.player = 3 - stack[k].root_player

\* Calls of both kinds are on the stack of a run of main.
C10_Witness ==
    /\ pc = "wait"
    /\ Len(stack) >= 4
    /\ stack[3].maximizing = 1
    /\ stack[4].maximizing = 0

====
